---- MODULE Spec2Model ----
(***************************************************************************)
(* Model of the processing view (pages/ProjectProcessing.jsx) and of the   *)
(* socket hook it uses (hooks/useWebSocket.js).                            *)
(*                                                                         *)
(* The view is a React component: its state cells (useState), its ref      *)
(* (useRef), the browser timers it creates and the HTTP requests it has in *)
(* flight are the variables.  Every handler, timer callback and promise    *)
(* continuation is one action.  A state setter called after the component  *)
(* has unmounted changes nothing (React drops the update); timers, refs    *)
(* and the router's navigate function keep working after unmount.          *)
(***************************************************************************)
EXTENDS Integers, Sequences, FiniteSets, TLC

(* Bound of the model: poll callbacks (setInterval ticks whose awaits have *)
(* not finished) that may be in flight at once.                            *)
MaxInFlight == 2

VARIABLES
    mounted,             \* the component is mounted
    project,             \* useState project: "null" or "loaded"
    loadPending,         \* getProject(id) of the load effect is in flight
    progress,            \* useState progress: [stage, progress, message]
    isProcessing,        \* useState isProcessing
    isCancelling,        \* useState isCancelling
    error,               \* useState error ("null" for null)
    pollingIntervalRef,  \* useRef: NoTimer (null) or a timer id
    activeTimers,        \* interval timers of the browser that are not cleared
    ceilingTimer,        \* the 5 minute setTimeout: "none", "pending", "fired"
    startPending,        \* processTakeoff is in flight
    primaryPending,      \* poll callbacks awaiting getProject
    fallbackPending,     \* poll callbacks awaiting getTakeoff
    cancelPending,       \* cancelTakeoff is in flight
    navTimers,           \* pending setTimeout(navigate, 2000) timers
    navigations,         \* navigate() calls performed
    wsState,             \* the hook's socket: "connecting", "open", "closed"
    connected,           \* useState connected of the hook
    lastMessage,         \* useState lastMessage of the hook (NoMessage for null)
    observed,            \* history: classes of terminal status the poll handled
    startRequests,       \* history: processTakeoff requests issued
    lastPoll,            \* history: the latest poll fetch, <<source, outcome>>
    url,                 \* the hook's url argument ("" for a falsy one)
    sockets,             \* every WebSocket the hook created, in creation order
    wsCurrent,           \* the hook's ws.current: 0 (null) or an index of sockets
    recent,              \* history: the kinds of the last two frames received
    gaugeMounted,        \* ConfidenceGauge: the component is mounted
    confidence,          \* ConfidenceGauge: the confidence prop (the target)
    animatedConfidence,  \* ConfidenceGauge: useState, in units of 1/Scale
    current,             \* ConfidenceGauge: `current` of the latest effect run
    effectRun,           \* ConfidenceGauge: number of the latest effect run
    gaugeTimers,         \* ConfidenceGauge: effect runs whose interval is active
    tradeData,           \* QuantityChart: one entry of the quantities prop
    chartRow,            \* QuantityChart: the row of `data` computed for it
    file,                \* NewProject: useState file ("null" for null)
    selectedTrades,      \* NewProject: useState selectedTrades (an array)
    availableTrades,     \* NewProject: useState availableTrades (enabled ones)
    isLoading,           \* NewProject: useState isLoading
    formError,           \* NewProject: useState error ("null" for null)
    createPending,       \* NewProject: createProject is in flight
    formNavigated        \* NewProject: navigate() to the processing view ran

vars == <<mounted, project, loadPending, progress, isProcessing, isCancelling,
          error, pollingIntervalRef, activeTimers, ceilingTimer, startPending,
          primaryPending, fallbackPending, cancelPending, navTimers,
          navigations, wsState, connected, lastMessage, observed,
          startRequests, lastPoll, url, sockets, wsCurrent, recent,
          gaugeMounted, confidence, animatedConfidence, current, effectRun,
          gaugeTimers, tradeData, chartRow, file, selectedTrades,
          availableTrades, isLoading, formError, createPending, formNavigated>>

(* The variables of the view; the socket-level model of the hook leaves     *)
(* them alone.                                                              *)
viewVars == <<project, loadPending, progress, isProcessing, isCancelling,
              error, pollingIntervalRef, activeTimers, ceilingTimer,
              startPending, primaryPending, fallbackPending, cancelPending,
              navTimers, navigations, wsState, observed, startRequests,
              lastPoll>>

(* The variables of the socket-level model of the hook; the model of the    *)
(* view, where the url is fixed and the hook has one socket (wsState),      *)
(* leaves them alone.                                                       *)
hookVars == <<url, sockets, wsCurrent, recent>>

(* The variables of the components modelled on their own: the confidence    *)
(* gauge, the quantity chart and the new-project form.  The models of the   *)
(* processing view and of the hook leave them alone.                        *)
gaugeVars == <<gaugeMounted, confidence, animatedConfidence, current,
               effectRun, gaugeTimers>>
chartVars == <<tradeData, chartRow>>
formVars == <<file, selectedTrades, availableTrades, isLoading, formError,
              createPending, formNavigated>>
otherVars == <<gaugeVars, chartVars, formVars>>

(* The variables of the processing view and of its hook. *)
pageVars == <<mounted, connected, lastMessage, viewVars, hookVars>>

viewState == <<project, progress, isProcessing, isCancelling, error>>

----------------------------------------------------------------------------
(* Values *)

NoTimer == "null"
PollTimerId == "interval"
NoMessage == [type |-> "null", stage |-> "", progress |-> <<>>, message |-> ""]

Max(a, b) == IF a >= b THEN a ELSE b
Min(a, b) == IF a <= b THEN a ELSE b

(* JS `a || b` on strings: the empty (or absent) string is falsy. *)
OrElse(a, b) == IF a # "" THEN a ELSE b

(* lastMessage.progress || 0, the field held as <<>> (absent) or <<n>>. *)
ProgressOrZero(p) == IF p = <<>> THEN 0 ELSE p[1]

(* A variant without the clamp: lastMessage.progress || 0. *)
NewProgressValueUnclamped(m) == ProgressOrZero(m.progress)

(* Math.max(0, Math.min(100, lastMessage.progress || 0)) *)
NewProgressValue(m) == Max(0, Min(100, ProgressOrZero(m.progress)))

InitialProgress ==
    [stage |-> "upload", progress |-> 0, message |-> "Initializing..."]

CancelledProgress ==
    [stage |-> "cancelled", progress |-> 0, message |-> "Processing cancelled"]

(* A variant of the updater without the monotonic rule: the latest value   *)
(* always wins.                                                            *)
MergeProgressLatest(prev, m) ==
    [stage    |-> OrElse(m.stage, prev.stage),
     progress |-> NewProgressValue(m),
     message  |-> OrElse(OrElse(m.message, prev.message), "Processing...")]

(* A variant of the updater that returns prev as it is when the percentage  *)
(* is lower.                                                                *)
MergeProgressIgnoresLower(prev, m) ==
    IF NewProgressValue(m) >= prev.progress
    THEN [stage    |-> OrElse(m.stage, prev.stage),
          progress |-> NewProgressValue(m),
          message  |-> OrElse(OrElse(m.message, prev.message), "Processing...")]
    ELSE prev

(* The updater passed to setProgress by the lastMessage effect. *)
MergeProgress(prev, m) ==
    IF NewProgressValue(m) >= prev.progress
    THEN [stage    |-> OrElse(m.stage, prev.stage),
          progress |-> NewProgressValue(m),
          message  |-> OrElse(OrElse(m.message, prev.message), "Processing...")]
    ELSE [stage    |-> OrElse(m.stage, prev.stage),
          progress |-> prev.progress,
          message  |-> OrElse(OrElse(m.message, prev.message), "Processing...")]

(* Inputs: decoded socket messages.  A progress message carries a stage and *)
(* a text, or neither; its progress field is absent or any number.         *)
PctInputs == {<<>>, <<-5>>, <<10>>, <<25>>, <<40>>, <<60>>, <<150>>}
Messages ==
    {[type |-> "progress", stage |-> st[1], progress |-> p, message |-> st[2]] :
        st \in {<<"", "">>, <<"extraction", "Extracting">>}, p \in PctInputs}
    \cup {[type |-> "status", stage |-> "complete",
           progress |-> <<60>>, message |-> "done"]}

(* Inputs: bodies of status responses (getProject / getTakeoff). *)
StatusValues ==
    {"", "uploaded", "processing", "completed", "expert_review",
     "ai_complete", "cancelled", "failed"}
Responses ==
    {[status |-> s, project_status |-> "", takeoff_result |-> FALSE] :
        s \in StatusValues}
    \cup {[status |-> "processing", project_status |-> "", takeoff_result |-> TRUE],
          [status |-> "", project_status |-> "completed", takeoff_result |-> FALSE],
          [status |-> "", project_status |-> "failed", takeoff_result |-> FALSE]}

(* project.status || project.project_status *)
StatusOf(r) == OrElse(r.status, r.project_status)

IsSuccessStatus(s) == s \in {"completed", "expert_review", "ai_complete"}
IsFailureStatus(s) == s \in {"cancelled", "failed"}

FailureMessage(s) ==
    IF s = "cancelled" THEN "Processing was cancelled" ELSE "Processing failed"

(* Inputs: rejected requests; err.response?.data?.detail and err.message. *)
Errors ==
    {[detail |-> "Job not found", message |-> "Request failed"],
     [detail |-> "", message |-> "Network Error"],
     [detail |-> "", message |-> ""]}

(* err.response?.data?.detail || err.message || fallback *)
ErrorText(err, fallback) == OrElse(OrElse(err.detail, err.message), fallback)

(* A state setter: applied while mounted, dropped after unmount. *)
SetState(new, old) == IF mounted THEN new ELSE old

(* clearInterval(pollingIntervalRef.current) *)
ClearInterval(ref) == activeTimers \ {ref}

(* The gauge, the chart and the form are not rendered by the processing     *)
(* view: in its model they are absent.                                      *)
NoRow == [quantity |-> 0, unit |-> "none"]
NoEntry == [kind |-> "none"]
ComponentsIdle ==
    /\ gaugeMounted = FALSE
    /\ confidence = 0
    /\ animatedConfidence = 0
    /\ current = 0
    /\ effectRun = 0
    /\ gaugeTimers = {}
    /\ tradeData = NoEntry
    /\ chartRow = NoRow
    /\ file = "null"
    /\ selectedTrades = <<>>
    /\ availableTrades = {}
    /\ isLoading = FALSE
    /\ formError = "null"
    /\ createPending = FALSE
    /\ formNavigated = FALSE

----------------------------------------------------------------------------
(* The state after the first render and its effects.  With a project in    *)
(* location.state the [project] effect has called startProcessing up to    *)
(* its await: setIsProcessing(true), setError(null), processTakeoff issued. *)
(* Without one the load effect has issued getProject(id).                  *)

Init ==
    /\ mounted = TRUE
    /\ \E fromRoute \in BOOLEAN :
          /\ project = IF fromRoute THEN "loaded" ELSE "null"
          /\ loadPending = ~fromRoute
          /\ isProcessing = fromRoute
          /\ startPending = fromRoute
          /\ startRequests = IF fromRoute THEN 1 ELSE 0
    /\ progress = InitialProgress
    /\ isCancelling = FALSE
    /\ error = "null"
    /\ pollingIntervalRef = NoTimer
    /\ activeTimers = {}
    /\ ceilingTimer = "none"
    /\ primaryPending = 0
    /\ fallbackPending = 0
    /\ cancelPending = FALSE
    /\ navTimers = 0
    /\ navigations = 0
    /\ wsState = "connecting"
    /\ connected = FALSE
    /\ lastMessage = NoMessage
    /\ observed = {}
    /\ lastPoll = <<"none", "none">>
    /\ url = ""
    /\ sockets = <<>>
    /\ wsCurrent = 0
    /\ recent = <<>>
    /\ ComponentsIdle

----------------------------------------------------------------------------
(* Project load effect: getProject(id).then(setProject).catch(...)          *)
(* setProject re-renders, and the [project] effect then calls               *)
(* startProcessing: setIsProcessing(true), setError(null), processTakeoff.  *)

LoadProjectOk ==
    /\ loadPending
    /\ loadPending' = FALSE
    /\ project' = SetState("loaded", project)
    /\ isProcessing' = SetState(TRUE, isProcessing)
    /\ error' = SetState("null", error)
    /\ startPending' = mounted
    /\ startRequests' = IF mounted THEN startRequests + 1 ELSE startRequests
    /\ UNCHANGED <<mounted, progress, isCancelling, pollingIntervalRef,
                   activeTimers, ceilingTimer, primaryPending, fallbackPending,
                   cancelPending, navTimers, navigations, wsState, connected,
                   lastMessage, observed>>

LoadProjectFail ==
    /\ loadPending
    /\ loadPending' = FALSE
    /\ error' = SetState("Failed to load project", error)
    /\ UNCHANGED <<mounted, project, progress, isProcessing, isCancelling,
                   pollingIntervalRef, activeTimers, ceilingTimer, startPending,
                   primaryPending, fallbackPending, cancelPending, navTimers,
                   navigations, wsState, connected, lastMessage, observed,
                   startRequests>>

(* processTakeoff resolved: pollForCompletion() creates the interval and    *)
(* the 5 minute timeout.  Nothing here looks at whether the view is still   *)
(* mounted.                                                                 *)
PollForCompletion ==
    /\ pollingIntervalRef' = PollTimerId
    /\ activeTimers' = activeTimers \cup {PollTimerId}
    /\ ceilingTimer' = "pending"

StartOk ==
    /\ startPending
    /\ startPending' = FALSE
    /\ PollForCompletion
    /\ UNCHANGED <<mounted, project, loadPending, progress, isProcessing,
                   isCancelling, error, primaryPending, fallbackPending,
                   cancelPending, navTimers, navigations, wsState, connected,
                   lastMessage, observed,
                   startRequests>>

(* A variant of the catch block that calls startProcessing once more. *)
StartFailRetries(err) ==
    /\ startPending
    /\ startRequests < 2
    /\ startPending' = TRUE
    /\ startRequests' = startRequests + 1
    /\ error' = SetState("null", error)
    /\ UNCHANGED <<mounted, project, loadPending, progress, isProcessing,
                   isCancelling, pollingIntervalRef, activeTimers, ceilingTimer,
                   primaryPending, fallbackPending, cancelPending, navTimers,
                   navigations, wsState, connected, lastMessage, observed>>

(* A variant with pollForCompletion() after the try / catch instead of      *)
(* inside the try: a failed start still starts the polling.                 *)
StartFailStillPolls(err) ==
    /\ startPending
    /\ startPending' = FALSE
    /\ error' = SetState(ErrorText(err, "Failed to start processing"), error)
    /\ isProcessing' = SetState(FALSE, isProcessing)
    /\ pollingIntervalRef' = "interval"
    /\ activeTimers' = activeTimers \cup {"interval"}
    /\ ceilingTimer' = "pending"
    /\ UNCHANGED <<mounted, project, loadPending, progress, isCancelling,
                   primaryPending, fallbackPending, cancelPending, navTimers,
                   navigations, wsState, connected, lastMessage, observed,
                   startRequests>>

(* processTakeoff rejected: the catch block of startProcessing. *)
StartFail(err) ==
    /\ startPending
    /\ startPending' = FALSE
    /\ error' = SetState(ErrorText(err, "Failed to start processing"), error)
    /\ isProcessing' = SetState(FALSE, isProcessing)
    /\ UNCHANGED <<mounted, project, loadPending, progress, isCancelling,
                   pollingIntervalRef, activeTimers, ceilingTimer,
                   primaryPending, fallbackPending, cancelPending, navTimers,
                   navigations, wsState, connected, lastMessage, observed,
                   startRequests>>

----------------------------------------------------------------------------
(* The interval callback of pollForCompletion. *)

(* The timer fires: the callback starts and awaits getProject(id). *)
PollTick ==
    /\ PollTimerId \in activeTimers
    /\ primaryPending + fallbackPending < MaxInFlight
    /\ primaryPending' = primaryPending + 1
    /\ UNCHANGED <<mounted, project, loadPending, progress, isProcessing,
                   isCancelling, error, pollingIntervalRef, activeTimers,
                   ceilingTimer, startPending, fallbackPending, cancelPending,
                   navTimers, navigations, wsState, connected, lastMessage,
                   observed,
                   startRequests>>

(* A variant of the success branch that omits the clearInterval. *)
OnSuccessStatusKeepsTimer ==
    /\ isProcessing' = SetState(FALSE, isProcessing)
    /\ navTimers' = navTimers + 1
    /\ observed' = observed \cup {"success"}
    /\ UNCHANGED <<activeTimers, error, progress>>

(* A success status: clearInterval(pollingIntervalRef.current);             *)
(* setIsProcessing(false); setTimeout(navigate, 2000).                      *)
OnSuccessStatus ==
    /\ activeTimers' = ClearInterval(pollingIntervalRef)
    /\ isProcessing' = SetState(FALSE, isProcessing)
    /\ navTimers' = navTimers + 1
    /\ observed' = observed \cup {"success"}
    /\ UNCHANGED <<error, progress>>

(* A variant of the failure branch that also puts the percentage back to 0, *)
(* as handleCancel does.                                                    *)
OnFailureStatusResetsProgress(s) ==
    /\ activeTimers' = ClearInterval(pollingIntervalRef)
    /\ isProcessing' = SetState(FALSE, isProcessing)
    /\ error' = SetState(FailureMessage(s), error)
    /\ progress' = SetState([progress EXCEPT !.progress = 0], progress)
    /\ observed' = observed \cup {"failure"}
    /\ UNCHANGED navTimers

(* A failure status: clearInterval(pollingIntervalRef.current);             *)
(* setIsProcessing(false); setError(...).                                   *)
OnFailureStatus(s) ==
    /\ activeTimers' = ClearInterval(pollingIntervalRef)
    /\ isProcessing' = SetState(FALSE, isProcessing)
    /\ error' = SetState(FailureMessage(s), error)
    /\ observed' = observed \cup {"failure"}
    /\ UNCHANGED <<navTimers, progress>>

(* Any other status, or no body: the callback returns. *)
OnNoChange ==
    UNCHANGED <<activeTimers, isProcessing, error, navTimers, observed, progress>>

(* A variant of the try block without the `processing` branch. *)
HandlePrimaryIgnoresResult(isNull, r) ==
    IF isNull THEN OnNoChange
    ELSE IF IsSuccessStatus(StatusOf(r)) THEN OnSuccessStatus
    ELSE IF IsFailureStatus(StatusOf(r)) THEN OnFailureStatus(StatusOf(r))
    ELSE OnNoChange

(* What the try block does with the resolved value of getProject. *)
HandlePrimary(isNull, r) ==
    IF isNull THEN OnNoChange
    ELSE IF IsSuccessStatus(StatusOf(r)) THEN OnSuccessStatus
    ELSE IF IsFailureStatus(StatusOf(r)) THEN OnFailureStatus(StatusOf(r))
    ELSE IF StatusOf(r) = "processing" /\ r.takeoff_result THEN OnSuccessStatus
    ELSE OnNoChange

(* A variant of the fallback without the failure branch. *)
HandleFallbackSuccessOnly(r) ==
    IF IsSuccessStatus(StatusOf(r)) THEN OnSuccessStatus
    ELSE OnNoChange

(* What the fallback does with the resolved value of getTakeoff. *)
HandleFallback(r) ==
    IF IsSuccessStatus(StatusOf(r)) THEN OnSuccessStatus
    ELSE IF IsFailureStatus(StatusOf(r)) THEN OnFailureStatus(StatusOf(r))
    ELSE OnNoChange

PrimaryResponse(isNull, r) ==
    /\ primaryPending > 0
    /\ primaryPending' = primaryPending - 1
    /\ HandlePrimary(isNull, r)
    /\ UNCHANGED <<mounted, project, loadPending, isCancelling,
                   pollingIntervalRef, ceilingTimer, startPending,
                   fallbackPending, cancelPending, navigations, wsState,
                   connected, lastMessage,
                   startRequests>>

(* getProject rejected: the catch block issues getTakeoff(id). *)
PrimaryFail ==
    /\ primaryPending > 0
    /\ primaryPending' = primaryPending - 1
    /\ fallbackPending' = fallbackPending + 1
    /\ UNCHANGED <<mounted, project, loadPending, progress, isProcessing,
                   isCancelling, error, pollingIntervalRef, activeTimers,
                   ceilingTimer, startPending, cancelPending, navTimers,
                   navigations, wsState, connected, lastMessage, observed,
                   startRequests>>

FallbackResponse(r) ==
    /\ fallbackPending > 0
    /\ fallbackPending' = fallbackPending - 1
    /\ HandleFallback(r)
    /\ UNCHANGED <<mounted, project, loadPending, isCancelling,
                   pollingIntervalRef, ceilingTimer, startPending,
                   primaryPending, cancelPending, navigations, wsState,
                   connected, lastMessage,
                   startRequests>>

(* A variant of the inner catch block that gives up: it clears the interval *)
(* and shows an error.                                                      *)
FallbackFailGivesUp ==
    /\ fallbackPending > 0
    /\ fallbackPending' = fallbackPending - 1
    /\ activeTimers' = ClearInterval(pollingIntervalRef)
    /\ isProcessing' = SetState(FALSE, isProcessing)
    /\ error' = SetState("Failed to check status", error)
    /\ UNCHANGED <<mounted, project, loadPending, progress, isCancelling,
                   pollingIntervalRef, ceilingTimer, startPending,
                   primaryPending, cancelPending, navTimers, navigations,
                   wsState, connected, lastMessage, observed, startRequests>>

(* getTakeoff rejected too: logged, polling continues. *)
FallbackFail ==
    /\ fallbackPending > 0
    /\ fallbackPending' = fallbackPending - 1
    /\ UNCHANGED <<mounted, project, loadPending, progress, isProcessing,
                   isCancelling, error, pollingIntervalRef, activeTimers,
                   ceilingTimer, startPending, primaryPending, cancelPending,
                   navTimers, navigations, wsState, connected, lastMessage,
                   observed,
                   startRequests>>

(* A variant of the 5 minute timeout that clears nothing. *)
CeilingTimeoutKeepsTimer ==
    /\ ceilingTimer = "pending"
    /\ ceilingTimer' = "fired"
    /\ UNCHANGED <<mounted, project, loadPending, progress, isProcessing,
                   isCancelling, error, pollingIntervalRef, activeTimers,
                   startPending, primaryPending, fallbackPending, cancelPending,
                   navTimers, navigations, wsState, connected, lastMessage,
                   observed,
                   startRequests>>

(* A variant of the 5 minute timeout that tells the user: it also calls     *)
(* setIsProcessing(false) and setError.                                     *)
CeilingTimeoutReports ==
    /\ ceilingTimer = "pending"
    /\ ceilingTimer' = "fired"
    /\ activeTimers' = IF pollingIntervalRef # NoTimer
                       THEN ClearInterval(pollingIntervalRef)
                       ELSE activeTimers
    /\ isProcessing' = SetState(FALSE, isProcessing)
    /\ error' = SetState("Processing timed out", error)
    /\ UNCHANGED <<mounted, project, loadPending, progress, isCancelling,
                   pollingIntervalRef, startPending, primaryPending,
                   fallbackPending, cancelPending, navTimers, navigations,
                   wsState, connected, lastMessage, observed, startRequests>>

(* The 5 minute timeout of pollForCompletion. *)
CeilingTimeout ==
    /\ ceilingTimer = "pending"
    /\ ceilingTimer' = "fired"
    /\ activeTimers' = IF pollingIntervalRef # NoTimer
                       THEN ClearInterval(pollingIntervalRef)
                       ELSE activeTimers
    /\ UNCHANGED <<mounted, project, loadPending, progress, isProcessing,
                   isCancelling, error, pollingIntervalRef, startPending,
                   primaryPending, fallbackPending, cancelPending, navTimers,
                   navigations, wsState, connected, lastMessage, observed,
                   startRequests>>

----------------------------------------------------------------------------
(* handleCancel.  The button is rendered while isProcessing and disabled    *)
(* while isCancelling.                                                      *)

(* Up to the await: the guard, window.confirm, setIsCancelling(true),       *)
(* setError(null), cancelTakeoff issued.  A declined confirm returns.       *)
CancelClick(confirmed) ==
    /\ mounted
    /\ project # "null"
    /\ isProcessing
    /\ ~isCancelling
    /\ IF confirmed
       THEN /\ isCancelling' = TRUE
            /\ error' = "null"
            /\ cancelPending' = TRUE
       ELSE UNCHANGED <<isCancelling, error, cancelPending>>
    /\ UNCHANGED <<mounted, project, loadPending, progress, isProcessing,
                   pollingIntervalRef, activeTimers, ceilingTimer, startPending,
                   primaryPending, fallbackPending, navTimers, navigations,
                   wsState, connected, lastMessage, observed,
                   startRequests>>

(* cancelTakeoff resolved: clear the interval, null the ref, show the       *)
(* cancelled state, schedule the navigation.                                *)
CancelOk ==
    /\ cancelPending
    /\ cancelPending' = FALSE
    /\ activeTimers' = IF pollingIntervalRef # NoTimer
                       THEN ClearInterval(pollingIntervalRef)
                       ELSE activeTimers
    /\ pollingIntervalRef' = NoTimer
    /\ isProcessing' = SetState(FALSE, isProcessing)
    /\ progress' = SetState(CancelledProgress, progress)
    /\ navTimers' = navTimers + 1
    /\ UNCHANGED <<mounted, project, loadPending, isCancelling, error,
                   ceilingTimer, startPending, primaryPending, fallbackPending,
                   navigations, wsState, connected, lastMessage, observed,
                   startRequests>>

(* A variant of the catch block without setIsCancelling(false). *)
CancelFailKeepsCancelling(err) ==
    /\ cancelPending
    /\ cancelPending' = FALSE
    /\ error' = SetState(ErrorText(err, "Failed to cancel processing"), error)
    /\ UNCHANGED <<mounted, project, loadPending, progress, isProcessing,
                   isCancelling, pollingIntervalRef, activeTimers, ceilingTimer,
                   startPending, primaryPending, fallbackPending, navTimers,
                   navigations, wsState, connected, lastMessage, observed,
                   startRequests>>

(* A variant of the catch block that only logs the error. *)
CancelFailSilent(err) ==
    /\ cancelPending
    /\ cancelPending' = FALSE
    /\ isCancelling' = SetState(FALSE, isCancelling)
    /\ UNCHANGED <<mounted, project, loadPending, progress, isProcessing,
                   error, pollingIntervalRef, activeTimers, ceilingTimer,
                   startPending, primaryPending, fallbackPending, navTimers,
                   navigations, wsState, connected, lastMessage, observed,
                   startRequests>>

(* cancelTakeoff rejected: the catch block of handleCancel. *)
CancelFail(err) ==
    /\ cancelPending
    /\ cancelPending' = FALSE
    /\ error' = SetState(ErrorText(err, "Failed to cancel processing"), error)
    /\ isCancelling' = SetState(FALSE, isCancelling)
    /\ UNCHANGED <<mounted, project, loadPending, progress, isProcessing,
                   pollingIntervalRef, activeTimers, ceilingTimer, startPending,
                   primaryPending, fallbackPending, navTimers, navigations,
                   wsState, connected, lastMessage, observed,
                   startRequests>>

----------------------------------------------------------------------------
(* Unmount: the cleanup of the [] effect of the view clears the interval    *)
(* the ref names, and the cleanup of the hook's effect closes the socket.   *)

Cleanup ==
    /\ mounted' = FALSE
    /\ activeTimers' = IF pollingIntervalRef # NoTimer
                       THEN ClearInterval(pollingIntervalRef)
                       ELSE activeTimers
    /\ wsState' = "closed"

(* The user leaves the route (a header link, the back button). *)
Unmount ==
    /\ mounted
    /\ Cleanup
    /\ UNCHANGED <<project, loadPending, progress, isProcessing, isCancelling,
                   error, pollingIntervalRef, ceilingTimer, startPending,
                   primaryPending, fallbackPending, cancelPending, navTimers,
                   navigations, connected, lastMessage, observed,
                   startRequests>>

(* A setTimeout(() => navigate(`/projects/${id}`), 2000) fires.  The route  *)
(* changes to the results page, which unmounts the view if it is mounted.   *)
NavigateTimeout ==
    /\ navTimers > 0
    /\ navTimers' = navTimers - 1
    /\ navigations' = navigations + 1
    /\ IF mounted THEN Cleanup ELSE UNCHANGED <<mounted, activeTimers, wsState>>
    /\ UNCHANGED <<project, loadPending, progress, isProcessing, isCancelling,
                   error, pollingIntervalRef, ceilingTimer, startPending,
                   primaryPending, fallbackPending, cancelPending, connected,
                   lastMessage, observed,
                   startRequests>>

----------------------------------------------------------------------------
(* The socket hook and the lastMessage effect of the view. *)

WsOpen ==
    /\ mounted
    /\ wsState = "connecting"
    /\ wsState' = "open"
    /\ connected' = TRUE
    /\ UNCHANGED <<mounted, project, loadPending, progress, isProcessing,
                   isCancelling, error, pollingIntervalRef, activeTimers,
                   ceilingTimer, startPending, primaryPending, fallbackPending,
                   cancelPending, navTimers, navigations, lastMessage, observed,
                   startRequests>>

(* onclose (the server or the network ends the connection). *)
WsClose ==
    /\ mounted
    /\ wsState = "open"
    /\ wsState' = "closed"
    /\ connected' = FALSE
    /\ UNCHANGED <<mounted, project, loadPending, progress, isProcessing,
                   isCancelling, error, pollingIntervalRef, activeTimers,
                   ceilingTimer, startPending, primaryPending, fallbackPending,
                   cancelPending, navTimers, navigations, lastMessage, observed,
                   startRequests>>

(* onerror followed by onclose (the connection could not be made). *)
WsError ==
    /\ mounted
    /\ wsState = "connecting"
    /\ wsState' = "closed"
    /\ connected' = FALSE
    /\ UNCHANGED <<mounted, project, loadPending, progress, isProcessing,
                   isCancelling, error, pollingIntervalRef, activeTimers,
                   ceilingTimer, startPending, primaryPending, fallbackPending,
                   cancelPending, navTimers, navigations, lastMessage, observed,
                   startRequests>>

(* A variant of the [lastMessage] effect without the test of the type. *)
SocketMessageAnyType(m) ==
    /\ mounted
    /\ wsState = "open"
    /\ lastMessage' = m
    /\ progress' = MergeProgress(progress, m)
    /\ UNCHANGED <<mounted, project, loadPending, isProcessing, isCancelling,
                   error, pollingIntervalRef, activeTimers, ceilingTimer,
                   startPending, primaryPending, fallbackPending, cancelPending,
                   navTimers, navigations, wsState, connected, observed,
                   startRequests>>

(* onmessage with a frame that decodes to m: setLastMessage(m); the         *)
(* [lastMessage] effect of the view then merges a progress message.         *)
SocketMessage(m) ==
    /\ mounted
    /\ wsState = "open"
    /\ lastMessage' = m
    /\ progress' = IF m.type = "progress"
                   THEN MergeProgress(progress, m)
                   ELSE progress
    /\ UNCHANGED <<mounted, project, loadPending, isProcessing, isCancelling,
                   error, pollingIntervalRef, activeTimers, ceilingTimer,
                   startPending, primaryPending, fallbackPending, cancelPending,
                   navTimers, navigations, wsState, connected, observed,
                   startRequests>>

----------------------------------------------------------------------------

Next ==
    \/ /\ LoadProjectOk
       /\ UNCHANGED <<lastPoll, hookVars, otherVars>>
    \/ /\ LoadProjectFail
       /\ UNCHANGED <<lastPoll, hookVars, otherVars>>
    \/ /\ StartOk
       /\ UNCHANGED <<lastPoll, hookVars, otherVars>>
    \/ /\ \E err \in Errors : StartFail(err)
       /\ UNCHANGED <<lastPoll, hookVars, otherVars>>
    \/ /\ PollTick
       /\ UNCHANGED <<lastPoll, hookVars, otherVars>>
    \/ /\ \E isNull \in BOOLEAN, r \in Responses : PrimaryResponse(isNull, r)
       /\ UNCHANGED <<lastPoll, hookVars, otherVars>>
    \/ /\ PrimaryFail
       /\ UNCHANGED <<lastPoll, hookVars, otherVars>>
    \/ /\ \E r \in Responses : FallbackResponse(r)
       /\ UNCHANGED <<lastPoll, hookVars, otherVars>>
    \/ /\ FallbackFail
       /\ UNCHANGED <<lastPoll, hookVars, otherVars>>
    \/ /\ CeilingTimeout
       /\ UNCHANGED <<lastPoll, hookVars, otherVars>>
    \/ /\ \E confirmed \in BOOLEAN : CancelClick(confirmed)
       /\ UNCHANGED <<lastPoll, hookVars, otherVars>>
    \/ /\ CancelOk
       /\ UNCHANGED <<lastPoll, hookVars, otherVars>>
    \/ /\ \E err \in Errors : CancelFail(err)
       /\ UNCHANGED <<lastPoll, hookVars, otherVars>>
    \/ /\ Unmount
       /\ UNCHANGED <<lastPoll, hookVars, otherVars>>
    \/ /\ NavigateTimeout
       /\ UNCHANGED <<lastPoll, hookVars, otherVars>>
    \/ /\ WsOpen
       /\ UNCHANGED <<lastPoll, hookVars, otherVars>>
    \/ /\ WsClose
       /\ UNCHANGED <<lastPoll, hookVars, otherVars>>
    \/ /\ WsError
       /\ UNCHANGED <<lastPoll, hookVars, otherVars>>
    \/ /\ \E m \in Messages : SocketMessage(m)
       /\ UNCHANGED <<lastPoll, hookVars, otherVars>>

Spec == Init /\ [][Next]_vars

(* The browser runs a pending timeout: the 5 minute timer fires. *)
LiveSpec ==
    Init /\ [][Next]_vars
         /\ WF_vars(CeilingTimeout /\ UNCHANGED <<lastPoll, hookVars, otherVars>>)

----------------------------------------------------------------------------
(* The polling of the view with a record of how the latest status fetch     *)
(* ended.  The socket delivers one progress message, so that a percentage   *)
(* other than 0 is displayed while the polls fail.                          *)

PollMessage ==
    [type |-> "progress", stage |-> "extraction", progress |-> <<40>>,
     message |-> "Extracting"]

(* The class of a resolved status fetch. *)
StatusClass(isNull, r) ==
    IF isNull THEN "other"
    ELSE IF IsSuccessStatus(StatusOf(r)) THEN "success"
    ELSE IF IsFailureStatus(StatusOf(r)) THEN "failure"
    ELSE "other"

(* The class of a resolved getProject: a body with status `processing` and  *)
(* a takeoff_result is a class of its own.                                  *)
PrimaryClass(isNull, r) ==
    IF ~isNull /\ StatusOf(r) = "processing" /\ r.takeoff_result
    THEN "result"
    ELSE StatusClass(isNull, r)

PollNext ==
    \/ /\ LoadProjectOk
       /\ UNCHANGED <<lastPoll, hookVars, otherVars>>
    \/ /\ LoadProjectFail
       /\ UNCHANGED <<lastPoll, hookVars, otherVars>>
    \/ /\ StartOk
       /\ UNCHANGED <<lastPoll, hookVars, otherVars>>
    \/ /\ \E err \in Errors : StartFail(err)
       /\ UNCHANGED <<lastPoll, hookVars, otherVars>>
    \/ /\ PollTick
       /\ UNCHANGED <<lastPoll, hookVars, otherVars>>
    \/ /\ \E isNull \in BOOLEAN, r \in Responses :
             /\ PrimaryResponse(isNull, r)
             /\ lastPoll' = <<"primary", PrimaryClass(isNull, r)>>
       /\ UNCHANGED <<hookVars, otherVars>>
    \/ /\ PrimaryFail
       /\ lastPoll' = <<"primary", "rejected">>
       /\ UNCHANGED <<hookVars, otherVars>>
    \/ /\ \E r \in Responses :
             /\ FallbackResponse(r)
             /\ lastPoll' = <<"fallback", StatusClass(FALSE, r)>>
       /\ UNCHANGED <<hookVars, otherVars>>
    \/ /\ FallbackFail
       /\ lastPoll' = <<"fallback", "rejected">>
       /\ UNCHANGED <<hookVars, otherVars>>
    \/ /\ CeilingTimeout
       /\ UNCHANGED <<lastPoll, hookVars, otherVars>>
    \/ /\ \E confirmed \in BOOLEAN : CancelClick(confirmed)
       /\ UNCHANGED <<lastPoll, hookVars, otherVars>>
    \/ /\ CancelOk
       /\ UNCHANGED <<lastPoll, hookVars, otherVars>>
    \/ /\ \E err \in Errors : CancelFail(err)
       /\ UNCHANGED <<lastPoll, hookVars, otherVars>>
    \/ /\ Unmount
       /\ UNCHANGED <<lastPoll, hookVars, otherVars>>
    \/ /\ NavigateTimeout
       /\ UNCHANGED <<lastPoll, hookVars, otherVars>>
    \/ /\ WsOpen
       /\ UNCHANGED <<lastPoll, hookVars, otherVars>>
    \/ /\ WsClose
       /\ UNCHANGED <<lastPoll, hookVars, otherVars>>
    \/ /\ SocketMessage(PollMessage)
       /\ UNCHANGED <<lastPoll, hookVars, otherVars>>

PollSpec == Init /\ [][PollNext]_vars

----------------------------------------------------------------------------
(* The lastMessage effect of the view on messages whose stage and text are  *)
(* present or absent independently of each other.                           *)

RichMessages ==
    {[type |-> "progress", stage |-> st, progress |-> p, message |-> tx] :
        st \in {"", "extraction", "analysis"},
        p \in {<<>>, <<25>>, <<60>>},
        tx \in {"", "Extracting", "Analyzing"}}
    \cup {[type |-> "status", stage |-> "complete",
           progress |-> <<60>>, message |-> "done"]}

MsgNext ==
    \/ /\ WsOpen
       /\ UNCHANGED <<lastPoll, hookVars, otherVars>>
    \/ /\ WsClose
       /\ UNCHANGED <<lastPoll, hookVars, otherVars>>
    \/ /\ WsError
       /\ UNCHANGED <<lastPoll, hookVars, otherVars>>
    \/ /\ \E m \in RichMessages : SocketMessage(m)
       /\ UNCHANGED <<lastPoll, hookVars, otherVars>>
    \/ /\ \E confirmed \in BOOLEAN : CancelClick(confirmed)
       /\ UNCHANGED <<lastPoll, hookVars, otherVars>>
    \/ /\ CancelOk
       /\ UNCHANGED <<lastPoll, hookVars, otherVars>>
    \/ /\ Unmount
       /\ UNCHANGED <<lastPoll, hookVars, otherVars>>

MsgSpec == Init /\ [][MsgNext]_vars

----------------------------------------------------------------------------
(* The socket hook (hooks/useWebSocket.js) at the level of its sockets.     *)
(* The url argument may change between renders and the owning view may be   *)
(* unmounted and mounted again (a new instance of the hook).  Every socket  *)
(* the hook created is kept with its readyState, because the handlers the   *)
(* hook attached to a socket stay attached after the hook has replaced it.  *)

(* Bound of the model: sockets created in one run. *)
MaxSockets == 3

(* Inputs: values of the url argument; "" is a falsy one. *)
Urls == {"", "ws://a/ws/client_1", "ws://b/ws/client_1"}

(* new WebSocket(url): readyState CONNECTING, owned by the mounted instance *)
(* of the hook (its handlers call the state setters of that instance).      *)
NewSocket == [state |-> "connecting", owned |-> TRUE]

(* readyState CONNECTING or OPEN: not closed and not closing. *)
Live(s) == s.state \in {"connecting", "open"}

(* if (ws.current) ws.current.close() *)
CloseCurrent(ss) ==
    IF wsCurrent # 0 /\ Live(ss[wsCurrent])
    THEN [ss EXCEPT ![wsCurrent].state = "closing"]
    ELSE ss

(* The cleanup of the effect.  An effect run that returned early (falsy     *)
(* url) registered none.                                                    *)
EffectCleanup(ss) == IF url # "" THEN CloseCurrent(ss) ELSE ss

(* A state setter called by a handler of socket i: applied while the        *)
(* instance that created the socket is mounted.                             *)
HookSet(i, new, old) == IF mounted /\ sockets[i].owned THEN new ELSE old

(* Inputs: text frames, as the sequence of their newline-separated lines;   *)
(* a line is the JSON text of a message or text that is not JSON.           *)
HookMessages ==
    {[type |-> "progress", stage |-> "extraction", progress |-> <<25>>,
      message |-> "Extracting"],
     [type |-> "status", stage |-> "complete", progress |-> <<60>>,
      message |-> "done"]}
JsonLine(m) == [json |-> TRUE, value |-> m]
Garbage == [json |-> FALSE, value |-> NoMessage]
FrameLines == {JsonLine(m) : m \in HookMessages} \cup {Garbage}
Frames ==
    {<<>>}
    \cup {<<x>> : x \in FrameLines}
    \cup {<<JsonLine(x), JsonLine(y)>> : x \in HookMessages, y \in HookMessages}

(* JSON.parse(event.data) returns: the text is one JSON value.  The empty   *)
(* text, text that is not JSON and two JSON values separated by a newline   *)
(* make it throw.                                                           *)
WellFormed(f) == Len(f) = 1 /\ f[1].json
ParseFrame(f) == f[1].value

(* The last two entries of a history. *)
LastTwo(h) == IF Len(h) <= 2 THEN h ELSE SubSeq(h, Len(h) - 1, Len(h))

(* The state after the first render of a view that uses the hook and after  *)
(* the hook's effect; the state of the view itself is not part of this      *)
(* model and stays as it is.                                                *)
HookInit ==
    /\ mounted = TRUE
    /\ url \in Urls
    /\ sockets = IF url = "" THEN <<>> ELSE <<NewSocket>>
    /\ wsCurrent = IF url = "" THEN 0 ELSE 1
    /\ connected = FALSE
    /\ lastMessage = NoMessage
    /\ recent = <<>>
    /\ project = "null"
    /\ loadPending = FALSE
    /\ progress = InitialProgress
    /\ isProcessing = FALSE
    /\ isCancelling = FALSE
    /\ error = "null"
    /\ pollingIntervalRef = NoTimer
    /\ activeTimers = {}
    /\ ceilingTimer = "none"
    /\ startPending = FALSE
    /\ primaryPending = 0
    /\ fallbackPending = 0
    /\ cancelPending = FALSE
    /\ navTimers = 0
    /\ navigations = 0
    /\ wsState = "closed"
    /\ observed = {}
    /\ startRequests = 0
    /\ lastPoll = <<"none", "none">>
    /\ ComponentsIdle

(* A variant of the effect that registers no cleanup: a new url creates a   *)
(* socket and leaves the previous one as it is.                             *)
UrlChangeKeepsSocket(u) ==
    /\ mounted
    /\ u # url
    /\ u # "" => Len(sockets) < MaxSockets
    /\ url' = u
    /\ sockets' = IF u = "" THEN sockets ELSE Append(sockets, NewSocket)
    /\ wsCurrent' = IF u = "" THEN wsCurrent ELSE Len(sockets) + 1
    /\ UNCHANGED <<mounted, connected, lastMessage, recent>>

(* A render with another url: the cleanup of the previous effect run, then  *)
(* the effect: if (!url) return; ws.current = new WebSocket(url).           *)
UrlChange(u) ==
    /\ mounted
    /\ u # url
    /\ u # "" => Len(sockets) < MaxSockets
    /\ url' = u
    /\ sockets' = IF u = "" THEN EffectCleanup(sockets)
                  ELSE Append(EffectCleanup(sockets), NewSocket)
    /\ wsCurrent' = IF u = "" THEN wsCurrent ELSE Len(sockets) + 1
    /\ UNCHANGED <<mounted, connected, lastMessage, recent>>

(* The owning view unmounts: the cleanup of the effect. *)
HookUnmount ==
    /\ mounted
    /\ mounted' = FALSE
    /\ sockets' = EffectCleanup(sockets)
    /\ UNCHANGED <<url, wsCurrent, connected, lastMessage, recent>>

(* The view is mounted again: a new instance of the hook with its initial   *)
(* state (connected false, lastMessage null, ws.current null) runs the      *)
(* effect.  The sockets of the previous instance are no longer owned.       *)
HookRemount ==
    /\ ~mounted
    /\ url # "" => Len(sockets) < MaxSockets
    /\ mounted' = TRUE
    /\ connected' = FALSE
    /\ lastMessage' = NoMessage
    /\ LET old == [i \in DOMAIN sockets |-> [sockets[i] EXCEPT !.owned = FALSE]]
       IN  sockets' = IF url = "" THEN old ELSE Append(old, NewSocket)
    /\ wsCurrent' = IF url = "" THEN 0 ELSE Len(sockets) + 1
    /\ UNCHANGED <<url, recent>>

(* onopen: setConnected(true). *)
SockOpen(i) ==
    /\ sockets[i].state = "connecting"
    /\ sockets' = [sockets EXCEPT ![i].state = "open"]
    /\ connected' = HookSet(i, TRUE, connected)
    /\ UNCHANGED <<mounted, url, wsCurrent, lastMessage, recent>>

(* onerror, and the onclose that follows it: the connection failed. *)
SockError(i) ==
    /\ Live(sockets[i])
    /\ sockets' = [sockets EXCEPT ![i].state = "closed"]
    /\ connected' = HookSet(i, FALSE, connected)
    /\ UNCHANGED <<mounted, url, wsCurrent, lastMessage, recent>>

(* A variant of onclose that connects again. *)
SockClosedReconnects(i) ==
    /\ sockets[i].state \in {"open", "closing"}
    /\ Len(sockets) < MaxSockets
    /\ sockets' = Append([sockets EXCEPT ![i].state = "closed"], NewSocket)
    /\ wsCurrent' = Len(sockets) + 1
    /\ connected' = HookSet(i, FALSE, connected)
    /\ UNCHANGED <<mounted, url, lastMessage, recent>>

(* onclose: the peer closed an open socket, or a close() has completed. *)
SockClosed(i) ==
    /\ sockets[i].state \in {"open", "closing"}
    /\ sockets' = [sockets EXCEPT ![i].state = "closed"]
    /\ connected' = HookSet(i, FALSE, connected)
    /\ UNCHANGED <<mounted, url, wsCurrent, lastMessage, recent>>

(* A variant of onmessage whose catch block calls setLastMessage(null). *)
SockMessageClearsOnError(i, f) ==
    /\ sockets[i].state = "open"
    /\ lastMessage' = IF WellFormed(f)
                      THEN HookSet(i, ParseFrame(f), lastMessage)
                      ELSE HookSet(i, NoMessage, lastMessage)
    /\ recent' = LastTwo(Append(recent,
                     IF WellFormed(f) THEN "decoded" ELSE "dropped"))
    /\ UNCHANGED <<mounted, url, sockets, wsCurrent, connected>>

(* onmessage: try { setLastMessage(JSON.parse(event.data)) } catch { log }. *)
(* A socket delivers messages only while its readyState is OPEN.            *)
SockMessage(i, f) ==
    /\ sockets[i].state = "open"
    /\ lastMessage' = IF WellFormed(f)
                      THEN HookSet(i, ParseFrame(f), lastMessage)
                      ELSE lastMessage
    /\ recent' = LastTwo(Append(recent,
                     IF WellFormed(f) THEN "decoded" ELSE "dropped"))
    /\ UNCHANGED <<mounted, url, sockets, wsCurrent, connected>>

HookNext ==
    \/ /\ \E u \in Urls : UrlChange(u)
       /\ UNCHANGED <<viewVars, otherVars>>
    \/ /\ HookUnmount
       /\ UNCHANGED <<viewVars, otherVars>>
    \/ /\ HookRemount
       /\ UNCHANGED <<viewVars, otherVars>>
    \/ /\ \E i \in DOMAIN sockets : SockOpen(i)
       /\ UNCHANGED <<viewVars, otherVars>>
    \/ /\ \E i \in DOMAIN sockets : SockError(i)
       /\ UNCHANGED <<viewVars, otherVars>>
    \/ /\ \E i \in DOMAIN sockets : SockClosed(i)
       /\ UNCHANGED <<viewVars, otherVars>>
    \/ /\ \E i \in DOMAIN sockets, f \in Frames : SockMessage(i, f)
       /\ UNCHANGED <<viewVars, otherVars>>

HookSpec == HookInit /\ [][HookNext]_vars

----------------------------------------------------------------------------
(* Properties *)

PollingActive == PollTimerId \in activeTimers
NavigationsScheduled == navTimers + navigations

(* C1: every socket progress message handled by the view leaves the         *)
(* displayed percentage at the larger of the displayed one and the          *)
(* message's clamped one, so the displayed sequence never decreases and a   *)
(* lower message leaves it unchanged.                                       *)
C1_SocketProgressNonDecreasing ==
    [][\A m \in Messages :
          (SocketMessage(m) /\ m.type = "progress") =>
              /\ progress'.progress >= progress.progress
              /\ progress'.progress =
                    Max(progress.progress, NewProgressValue(m))]_vars

(* The message 25 arrived while 40 was displayed, and 40 is still displayed. *)
C1_Witness ==
    /\ lastMessage.type = "progress"
    /\ lastMessage.progress = <<25>>
    /\ progress.progress = 40

(* C2 as stated: no step of the view lowers the displayed percentage. *)
C2_NeverDecreases ==
    [][progress'.progress >= progress.progress]_vars

(* C2 amended: no step other than a successful user cancel lowers the       *)
(* displayed percentage; a successful cancel of the mounted view sets it    *)
(* to 0.                                                                    *)
C2_NeverDecreasesExceptCancel ==
    [][/\ ~CancelOk => progress'.progress >= progress.progress
       /\ (CancelOk /\ mounted) => progress'.progress = 0]_vars

(* The message 60 was handled and a later successful cancel put the        *)
(* display at cancelled / 0%.                                               *)
C2_Witness ==
    /\ mounted
    /\ lastMessage.type = "progress"
    /\ lastMessage.progress = <<60>>
    /\ progress = CancelledProgress

(* C3: the view never schedules more than one navigation, also when two     *)
(* poll responses in flight both report a success status.                   *)
C3_AtMostOneNavigation == NavigationsScheduled <= 1

(* C4: once a poll response has reported failed or cancelled, no            *)
(* navigation is scheduled or performed in the session.                     *)
C4_FailureStatusMeansNoNavigation ==
    "failure" \in observed => NavigationsScheduled = 0

(* C5: while the cancel request is in flight the polling timer is already   *)
(* stopped.                                                                 *)
C5_PollingStoppedBeforeCancelRequest == cancelPending => ~PollingActive

(* C6: once a user cancel has succeeded and cancelled / 0% is displayed,    *)
(* no later step changes the displayed progress.                            *)
C6_CancelledDisplayStays ==
    [][(mounted /\ isCancelling /\ ~cancelPending
            /\ progress = CancelledProgress) =>
        progress' = CancelledProgress]_vars

(* C7: after unmount the socket is closed and no polling timer is active.   *)
C7_NoTimerAfterUnmount ==
    ~mounted => (wsState = "closed" /\ ~PollingActive)

(* C8: after unmount no step changes the view state, schedules a            *)
(* navigation or performs one.                                              *)
C8_NoEffectAfterUnmount ==
    [][~mounted =>
          /\ viewState' = viewState
          /\ navTimers' <= navTimers
          /\ navigations' = navigations]_vars

(* C9 as stated: after a terminal status was handled the timer is cleared   *)
(* and no status request (getProject by a tick, getTakeoff by a fallback)   *)
(* is issued.                                                               *)
C9_NoRequestAfterTerminal ==
    [][observed # {} => (~PollingActive' /\ ~PollTick /\ ~PrimaryFail)]_vars

(* C9 amended: after a terminal status was handled the polling timer is     *)
(* cleared and stays cleared and no further tick fires; a callback that was *)
(* already in flight may still issue its fallback request.                  *)
C9_NoTickAfterTerminal ==
    /\ [](observed # {} => ~PollingActive)
    /\ [][observed # {} => ~PollTick]_vars

(* The timer was cleared by the handling of a terminal status: the view is  *)
(* mounted, the ref still names the timer and the ceiling has not fired.    *)
C9_Witness ==
    /\ observed # {}
    /\ mounted
    /\ pollingIntervalRef = PollTimerId
    /\ ceilingTimer = "pending"
    /\ ~PollingActive

(* C10: whenever polling is active it eventually stops, given that the      *)
(* ceiling timer eventually fires.                                          *)
C10_PollingEventuallyStops == PollingActive ~> ~PollingActive

(* The ceiling timer stopped the polling: no terminal status was handled,   *)
(* the view is mounted and still processing, and the user did not cancel.   *)
C10_Witness ==
    /\ ceilingTimer = "fired"
    /\ observed = {}
    /\ mounted
    /\ isProcessing
    /\ pollingIntervalRef = PollTimerId
    /\ ~PollingActive

PollRequestsInFlight == primaryPending + fallbackPending

(* C11: processTakeoff is issued at most once per mounted view, and a poll  *)
(* request is in flight or the polling timer exists only after that one     *)
(* request has resolved (when pollForCompletion created the ceiling timer). *)
C11_StartOnceBeforePolling ==
    /\ startRequests <= 1
    /\ (PollRequestsInFlight > 0 \/ PollingActive) =>
           (startRequests = 1 /\ ~startPending /\ ceilingTimer # "none")

(* The one start request has succeeded and a poll request is in flight.     *)
C11_Witness ==
    /\ mounted
    /\ startRequests = 1
    /\ primaryPending > 0
    /\ ~loadPending
    /\ error = "null"

(* The start request was issued and has ended without pollForCompletion. *)
StartFailed == startRequests = 1 /\ ~startPending /\ ceilingTimer = "none"

(* C12 as stated: after a failed start no navigation is scheduled in the    *)
(* session.                                                                 *)
C12_StartFailureNoNavigation == StartFailed => NavigationsScheduled = 0

(* C12 amended: a failed start shows the error and puts isProcessing back   *)
(* to false; it creates no timer and none is created once the start        *)
(* request has ended; after a failed start only the success of a user       *)
(* cancel (confirmed while the start request was in flight) schedules a     *)
(* navigation.                                                              *)
C12_StartFailureStartsNothing ==
    /\ [][\A err \in Errors : StartFail(err) =>
            /\ mounted => /\ error' = ErrorText(err, "Failed to start processing")
                          /\ ~isProcessing'
            /\ ceilingTimer' = "none"
            /\ pollingIntervalRef' = NoTimer
            /\ activeTimers' = {}
            /\ navTimers' = navTimers]_vars
    /\ [][(startRequests = 1 /\ ~startPending) =>
            /\ ceilingTimer' = "pending" => ceilingTimer = "pending"
            /\ pollingIntervalRef' \in {pollingIntervalRef, NoTimer}
            /\ activeTimers' \subseteq activeTimers]_vars
    /\ [][(StartFailed /\ navTimers' > navTimers) => CancelOk]_vars

(* The start failed with no detail and no message: the default text is      *)
(* shown and the view is idle.                                              *)
C12_Witness ==
    /\ mounted
    /\ StartFailed
    /\ error = "Failed to start processing"
    /\ ~isProcessing
    /\ NavigationsScheduled = 0

(* C13: a failed cancel request (in a mounted view) shows the error, puts   *)
(* isCancelling back to false, leaves isProcessing, the displayed progress, *)
(* the polling timer and the navigations as they were, and leaves the       *)
(* cancel button usable whenever the view is still processing.              *)
C13_CancelFailureAllowsRetry ==
    [][\A err \in Errors : (CancelFail(err) /\ mounted) =>
          /\ error' = ErrorText(err, "Failed to cancel processing")
          /\ ~isCancelling'
          /\ UNCHANGED <<isProcessing, progress, activeTimers,
                         pollingIntervalRef, navTimers, navigations>>
          /\ isProcessing =>
                (mounted' /\ project' # "null" /\ isProcessing' /\ ~isCancelling')]_vars

(* A cancel failed while polling: the error is shown, polling goes on and   *)
(* the cancel button is enabled again.                                      *)
C13_Witness ==
    /\ mounted
    /\ error = "Failed to cancel processing"
    /\ ~isCancelling
    /\ ~cancelPending
    /\ isProcessing
    /\ PollingActive
    /\ NavigationsScheduled = 0

AnyStartFail == \E err \in Errors : StartFail(err)
AnyCancelFail == \E err \in Errors : CancelFail(err)

(* C15 as stated: every network failure handled by a mounted view sets an   *)
(* error message and leaves the displayed progress unchanged.               *)
C15_EveryFailureSetsMessage ==
    [][(mounted /\ (LoadProjectFail \/ AnyStartFail \/ PrimaryFail
                      \/ FallbackFail \/ AnyCancelFail)) =>
          (error' # "null" /\ progress' = progress)]_vars

(* C15 amended: every network failure leaves the displayed progress         *)
(* unchanged; a failed project load, start or cancel sets an error message, *)
(* a failed poll fetch (primary or fallback) sets none and leaves the error *)
(* as it was.                                                               *)
C15_FailuresKeepProgress ==
    /\ [][(mounted /\ (LoadProjectFail \/ AnyStartFail \/ AnyCancelFail)) =>
            (error' # "null" /\ progress' = progress)]_vars
    /\ [][(PrimaryFail \/ FallbackFail) =>
            (error' = error /\ progress' = progress)]_vars

(* A failed project load and a displayed progress of 40% in one view.        *)
C15_Witness ==
    /\ mounted
    /\ error = "Failed to load project"
    /\ progress.progress = 40
    /\ project = "null"

(* What a poll callback may change in the view and its timers. *)
pollEffects ==
    <<activeTimers, pollingIntervalRef, ceilingTimer, isProcessing, error,
      progress, navTimers, navigations, mounted>>

(* C14: when the primary and then the secondary status fetch of a tick      *)
(* fail, nothing but the request counters changes: the polling timer stays  *)
(* as it is, and isProcessing, error, the displayed progress and the        *)
(* navigations are unchanged by the tick (its start, the rejected primary   *)
(* fetch and the rejected fallback).                                        *)
C14_BothFailuresSwallowed ==
    [][(PollTick \/ PrimaryFail \/ FallbackFail) =>
          /\ UNCHANGED pollEffects
          /\ PollingActive' = PollingActive]_vars

(* Both fetches of a tick were rejected: the timer is still active, the     *)
(* view is still processing, no error is shown and 40% is still displayed.  *)
C14_Witness ==
    /\ lastPoll = <<"fallback", "rejected">>
    /\ mounted
    /\ PollingActive
    /\ isProcessing
    /\ error = "null"
    /\ progress.progress = 40
    /\ PollRequestsInFlight = 0

IsTerminal(r) == IsSuccessStatus(StatusOf(r)) \/ IsFailureStatus(StatusOf(r))

(* C16: getTakeoff is issued exactly by the steps in which a getProject is  *)
(* rejected, and a body with a terminal status is handled by the fallback   *)
(* exactly as by the primary branch: the polling timer is stopped,          *)
(* isProcessing is put to false, and a success status schedules one         *)
(* navigation while a failure status sets its error message.                *)
C16_FallbackOnlyOnPrimaryFailure ==
    /\ [][(fallbackPending' > fallbackPending) <=> PrimaryFail]_vars
    /\ [][\A r \in Responses : IsTerminal(r) =>
            (HandleFallback(r) <=> HandlePrimary(FALSE, r))]_vars
    /\ [][\A r \in Responses : (FallbackResponse(r) /\ IsTerminal(r)) =>
            /\ ~PollingActive'
            /\ mounted => ~isProcessing'
            /\ IsSuccessStatus(StatusOf(r)) =>
                  (navTimers' = navTimers + 1 /\ error' = error)
            /\ IsFailureStatus(StatusOf(r)) =>
                  /\ navTimers' = navTimers
                  /\ mounted => error' = FailureMessage(StatusOf(r))]_vars

(* The primary fetch was rejected and the fallback returned a failure       *)
(* status: polling stopped, the error is shown, nothing is scheduled.       *)
C16_Witness ==
    /\ lastPoll = <<"fallback", "failure">>
    /\ mounted
    /\ ~PollingActive
    /\ ~isProcessing
    /\ error = "Processing failed"
    /\ NavigationsScheduled = 0

(* C17 as stated: after a progress message is handled the displayed stage   *)
(* and message are those of the message, also when they are empty or        *)
(* absent.                                                                  *)
C17_StageAndMessageAlwaysLatest ==
    [][\A m \in RichMessages :
          (SocketMessage(m) /\ m.type = "progress") =>
              /\ progress'.stage = m.stage
              /\ progress'.message = m.message]_vars

(* C17 amended: after a progress message is handled the displayed stage is  *)
(* the message's stage if it has one and the previous stage otherwise, and  *)
(* the displayed text is the message's text if it has one and the previous  *)
(* text otherwise, whether its percentage was accepted or rejected.         *)
C17_StageAndMessageLatestIfPresent ==
    [][\A m \in RichMessages :
          (SocketMessage(m) /\ m.type = "progress") =>
              /\ progress'.stage =
                    (IF m.stage = "" THEN progress.stage ELSE m.stage)
              /\ progress'.message =
                    (IF m.message = "" THEN progress.message ELSE m.message)
              /\ progress'.message # ""]_vars

(* A message with a text, no stage and the rejected percentage 25 was       *)
(* handled while extraction / 60% was displayed: the text is the message's, *)
(* the stage and the percentage are the previous ones.                      *)
C17_Witness ==
    /\ lastMessage.type = "progress"
    /\ lastMessage.stage = ""
    /\ lastMessage.message = "Analyzing"
    /\ lastMessage.progress = <<25>>
    /\ progress = [stage |-> "extraction", progress |-> 60,
                   message |-> "Analyzing"]

LiveSockets == {i \in DOMAIN sockets : Live(sockets[i])}

(* C18: at most one socket of the hook is neither closed nor closing, and   *)
(* it is the current socket of a mounted hook: a socket replaced by a url   *)
(* change and the socket of an unmounted hook are closing or closed.        *)
C18_AtMostOneLiveSocket ==
    /\ Cardinality(LiveSockets) <= 1
    /\ \A i \in LiveSockets : mounted /\ url # "" /\ i = wsCurrent

(* The url changed twice: the first socket is closed, the second is         *)
(* closing, the third is open.                                              *)
C18_Witness ==
    /\ mounted
    /\ Len(sockets) = 3
    /\ sockets[1].state = "closed"
    /\ sockets[2].state = "closing"
    /\ sockets[3].state = "open"
    /\ \A i \in DOMAIN sockets : sockets[i].owned

(* C19: a frame that JSON.parse rejects changes neither lastMessage nor     *)
(* connected nor any socket (the socket stays open with its handler), and   *)
(* a well-formed frame that follows a dropped one is decoded and becomes    *)
(* lastMessage.                                                             *)
C19_MalformedFrameDropped ==
    [][\A i \in DOMAIN sockets, f \in Frames : SockMessage(i, f) =>
          /\ ~WellFormed(f) =>
                /\ UNCHANGED <<lastMessage, connected, sockets, wsCurrent>>
                /\ sockets'[i].state = "open"
          /\ (WellFormed(f) /\ recent # <<>> /\ recent[Len(recent)] = "dropped") =>
                /\ f[1].value \in HookMessages
                /\ lastMessage' = f[1].value]_vars

(* A frame was dropped and the next frame, a status message, was decoded.   *)
C19_Witness ==
    /\ recent = <<"dropped", "decoded">>
    /\ lastMessage.type = "status"
    /\ connected

(* The current socket of the mounted hook has reported close or error. *)
Dropped == mounted /\ wsCurrent # 0 /\ sockets[wsCurrent].state = "closed"

(* C20: once the current socket has reported close or error, connected is   *)
(* false, and as long as the url is the same and the view stays mounted no  *)
(* socket is created and connected stays false.                             *)
C20_NoReconnect ==
    /\ [](Dropped => ~connected)
    /\ [][(Dropped /\ url' = url /\ mounted') =>
            /\ Dropped'
            /\ Len(sockets') = Len(sockets)
            /\ wsCurrent' = wsCurrent
            /\ ~connected']_vars

(* The only socket was open (a message was decoded) and then dropped: the   *)
(* hook reports disconnected and has created no second socket.              *)
C20_Witness ==
    /\ Dropped
    /\ url # ""
    /\ Len(sockets) = 1
    /\ lastMessage # NoMessage
    /\ ~connected

(* C21: a text frame of one or more JSON objects separated by newlines is   *)
(* decoded, and lastMessage becomes the last object of the frame.           *)
C21_NewlineDelimitedDecoded ==
    [][\A i \in DOMAIN sockets, f \in Frames :
          (SockMessage(i, f) /\ Len(f) >= 1 /\ \A k \in DOMAIN f : f[k].json) =>
              lastMessage' = f[Len(f)].value]_vars

(* C22: a decoded message whose type is not `progress` leaves the displayed *)
(* stage, percentage and text, isProcessing, error and the timers as they   *)
(* were; only lastMessage changes.                                          *)
C22_OtherTypesNotConsumed ==
    [][\A m \in Messages : (SocketMessage(m) /\ m.type # "progress") =>
          /\ lastMessage' = m
          /\ UNCHANGED <<progress, isProcessing, isCancelling, error,
                         activeTimers, pollingIntervalRef, ceilingTimer,
                         navTimers, navigations>>]_vars

(* A status message with stage `complete` and 60 arrived while extraction / *)
(* 40% was displayed and polling was active: the display is as before.      *)
C22_Witness ==
    /\ lastMessage.type = "status"
    /\ progress.stage = "extraction"
    /\ progress.progress = 40
    /\ PollingActive
    /\ isProcessing
    /\ error = "null"

(* The hook's current socket is open. *)
CurrentOpen == wsCurrent # 0 /\ sockets[wsCurrent].state = "open"

(* C25: connected is true only while the current socket of the mounted hook *)
(* is open, and an event of a socket that is not the current one changes    *)
(* neither connected nor lastMessage.                                       *)
C25_ConnectedDescribesCurrentSocket ==
    /\ []((mounted /\ connected) => CurrentOpen)
    /\ [][\A i \in DOMAIN sockets :
            (i # wsCurrent /\ (SockClosed(i) \/ SockError(i)
                               \/ \E f \in Frames : SockMessage(i, f))) =>
                UNCHANGED <<connected, lastMessage>>]_vars

(* C26: the displayed percentage is in 0..100 in every state. *)
C26_PercentageInRange == progress.progress \in 0..100

(* The message with progress 150 was handled and 100% is displayed. *)
C26_Witness ==
    /\ lastMessage.type = "progress"
    /\ lastMessage.progress = <<150>>
    /\ progress.progress = 100

(* C27: a resolved primary fetch whose status is not terminal is handled as *)
(* completion (timer cleared, isProcessing false, one navigation scheduled) *)
(* exactly when the status is `processing` and the body has a               *)
(* takeoff_result; an empty body, `processing` without a result and every   *)
(* other non-terminal status change nothing.                                *)
C27_ProcessingWithResultCompletes ==
    [][\A isNull \in BOOLEAN, r \in Responses :
          (PrimaryResponse(isNull, r) /\ (isNull \/ ~IsTerminal(r))) =>
              IF ~isNull /\ StatusOf(r) = "processing" /\ r.takeoff_result
              THEN /\ ~PollingActive'
                   /\ mounted => ~isProcessing'
                   /\ navTimers' = navTimers + 1
                   /\ UNCHANGED <<error, progress>>
              ELSE UNCHANGED pollEffects]_vars

(* The latest primary fetch returned `processing` with a takeoff_result,    *)
(* and nothing else completed: polling stopped, one navigation scheduled.   *)
C27_Witness ==
    /\ lastPoll = <<"primary", "result">>
    /\ mounted
    /\ ~PollingActive
    /\ ~isProcessing
    /\ navTimers = 1
    /\ navigations = 0
    /\ error = "null"
    /\ PollRequestsInFlight = 0
    /\ ~isCancelling

(* C28: the ceiling timeout changes neither isProcessing nor error nor the  *)
(* displayed progress and schedules no navigation; while no terminal status *)
(* was handled and nothing is scheduled the view still shows processing.    *)
C28_CeilingLeavesViewActive ==
    /\ [][CeilingTimeout =>
            UNCHANGED <<isProcessing, isCancelling, error, progress,
                        navTimers, navigations>>]_vars
    /\ []((ceilingTimer = "fired" /\ mounted /\ observed = {}
              /\ NavigationsScheduled = 0) => isProcessing)

(* The ceiling timer stopped the polling after fetches that reported no     *)
(* terminal status: the view shows processing, no error, no navigation.     *)
C28_Witness ==
    /\ ceilingTimer = "fired"
    /\ lastPoll = <<"primary", "other">>
    /\ observed = {}
    /\ mounted
    /\ ~PollingActive
    /\ PollRequestsInFlight = 0
    /\ isProcessing
    /\ error = "null"
    /\ NavigationsScheduled = 0

(* The keys of STAGES (processing view) and of stages (ProgressIndicator). *)
ViewStages ==
    <<"upload", "extraction", "quantity", "cv", "specs", "verification",
      "expert_review", "complete">>
IndicatorStages ==
    <<"upload", "extraction", "quantity", "cv", "specs", "verification",
      "complete">>

(* Array.prototype.findIndex on the keys: the 0-based index of the first    *)
(* match, -1 without a match.                                               *)
FindIndex(keys, key) ==
    IF \E i \in DOMAIN keys : keys[i] = key
    THEN (CHOOSE i \in DOMAIN keys :
             keys[i] = key /\ \A j \in DOMAIN keys : keys[j] = key => i <= j) - 1
    ELSE -1

(* JS `n || d` on numbers: 0 is falsy, every other number (-1 too) is       *)
(* truthy.                                                                  *)
NumberOrElse(n, d) == IF n # 0 THEN n ELSE d

(* STAGES.findIndex(s => s.key === progress.stage) || 0 *)
currentStageIndex(keys, stage) == NumberOrElse(FindIndex(keys, stage), 0)

(* C30: the computed currentStageIndex is an index of the stage list, in    *)
(* the processing view and in ProgressIndicator, for every displayed stage. *)
C30_StageIndexValid ==
    /\ currentStageIndex(ViewStages, progress.stage) \in 0..(Len(ViewStages) - 1)
    /\ currentStageIndex(IndicatorStages, progress.stage)
           \in 0..(Len(IndicatorStages) - 1)

----------------------------------------------------------------------------
(* Components modelled on their own.  The processing view and its hook     *)
(* are not rendered next to them: in their models the view is absent.      *)
PageIdle ==
    /\ mounted = FALSE
    /\ url = ""
    /\ sockets = <<>>
    /\ wsCurrent = 0
    /\ connected = FALSE
    /\ lastMessage = NoMessage
    /\ recent = <<>>
    /\ project = "null"
    /\ loadPending = FALSE
    /\ progress = InitialProgress
    /\ isProcessing = FALSE
    /\ isCancelling = FALSE
    /\ error = "null"
    /\ pollingIntervalRef = NoTimer
    /\ activeTimers = {}
    /\ ceilingTimer = "none"
    /\ startPending = FALSE
    /\ primaryPending = 0
    /\ fallbackPending = 0
    /\ cancelPending = FALSE
    /\ navTimers = 0
    /\ navigations = 0
    /\ wsState = "closed"
    /\ observed = {}
    /\ startRequests = 0
    /\ lastPoll = <<"none", "none">>

----------------------------------------------------------------------------
(* ConfidenceGauge (components/ConfidenceGauge.jsx).                       *)
(*                                                                          *)
(* The numbers of the component are fractions; the model counts them in    *)
(* units of 1/Scale, so that the increment confidence / steps is a whole   *)
(* number of units and one unit is left to stand for a sum that floating   *)
(* point leaves just below the target.                                      *)

(* const steps = 60 *)
Steps == 60
Scale == 2 * Steps

(* The confidence props the model renders the gauge with, in percent. *)
Confidences == {0, 45, 90}

(* How many times the effect may run again (a new prop, or a new mount). *)
MaxRetargets == 2

(* The confidence prop in units. *)
Target(c) == c * Scale

(* const increment = confidence / steps *)
increment(c) == Target(c) \div Steps

(* The state after the first render and the first run of the effect: the   *)
(* displayed value is 0, current is 0 and the interval is set.             *)
GaugeInit ==
    /\ PageIdle
    /\ gaugeMounted = TRUE
    /\ confidence \in Confidences
    /\ animatedConfidence = 0
    /\ current = 0
    /\ effectRun = 1
    /\ gaugeTimers = {1}
    /\ tradeData = NoEntry
    /\ chartRow = NoRow
    /\ file = "null"
    /\ selectedTrades = <<>>
    /\ availableTrades = {}
    /\ isLoading = FALSE
    /\ formError = "null"
    /\ createPending = FALSE
    /\ formNavigated = FALSE

(* current += increment.  Where the exact sum is the target, the floating  *)
(* point sum of `steps` increments is the target or falls short of it by   *)
(* less than one increment, depending on the value of confidence.          *)
Accumulated ==
    LET sum == current + increment(confidence)
    IN  IF sum = Target(confidence) /\ confidence # 0
        THEN {sum, sum - 1}
        ELSE {sum}

(* The interval callback of the latest effect run (lines 14-22). *)
GaugeTick ==
    /\ gaugeMounted
    /\ effectRun \in gaugeTimers
    /\ \E c \in Accumulated :
          /\ current' = c
          /\ IF c >= Target(confidence)
             THEN /\ animatedConfidence' = Target(confidence)
                  /\ gaugeTimers' = gaugeTimers \ {effectRun}
             ELSE /\ animatedConfidence' = c
                  /\ UNCHANGED gaugeTimers
    /\ UNCHANGED <<gaugeMounted, confidence, effectRun>>

(* A render with another confidence: the cleanup of the previous run       *)
(* clears its interval, the effect runs again with current = 0 and a new   *)
(* interval.  The state animatedConfidence is not written.                 *)
GaugeRetarget(c) ==
    /\ gaugeMounted
    /\ c # confidence
    /\ effectRun <= MaxRetargets
    /\ confidence' = c
    /\ current' = 0
    /\ effectRun' = effectRun + 1
    /\ gaugeTimers' = (gaugeTimers \ {effectRun}) \cup {effectRun + 1}
    /\ UNCHANGED <<gaugeMounted, animatedConfidence>>

(* Unmount: the cleanup clears the interval. *)
GaugeUnmount ==
    /\ gaugeMounted
    /\ gaugeMounted' = FALSE
    /\ gaugeTimers' = gaugeTimers \ {effectRun}
    /\ UNCHANGED <<confidence, animatedConfidence, current, effectRun>>

(* A new mount is a new component: useState(0) and the first effect run. *)
GaugeMount(c) ==
    /\ ~gaugeMounted
    /\ effectRun <= MaxRetargets
    /\ gaugeMounted' = TRUE
    /\ confidence' = c
    /\ animatedConfidence' = 0
    /\ current' = 0
    /\ effectRun' = effectRun + 1
    /\ gaugeTimers' = gaugeTimers \cup {effectRun + 1}

GaugeNext ==
    \/ /\ GaugeTick
       /\ UNCHANGED <<pageVars, chartVars, formVars>>
    \/ /\ \E c \in Confidences : GaugeRetarget(c)
       /\ UNCHANGED <<pageVars, chartVars, formVars>>
    \/ /\ GaugeUnmount
       /\ UNCHANGED <<pageVars, chartVars, formVars>>
    \/ /\ \E c \in Confidences : GaugeMount(c)
       /\ UNCHANGED <<pageVars, chartVars, formVars>>

GaugeSpec == GaugeInit /\ [][GaugeNext]_vars

(* C23: the displayed value of a mounted gauge never exceeds the target,   *)
(* it equals the target once the accumulated value has reached it, the     *)
(* interval is cleared at that point, and no interval of an earlier effect *)
(* run or of an unmounted gauge is left.                                    *)
C23_GaugeBoundedAndCleared ==
    /\ gaugeMounted => animatedConfidence <= Target(confidence)
    /\ (gaugeMounted /\ current > 0 /\ current >= Target(confidence))
           => (animatedConfidence = Target(confidence)
               /\ effectRun \notin gaugeTimers)
    /\ gaugeTimers \subseteq (IF gaugeMounted THEN {effectRun} ELSE {})

----------------------------------------------------------------------------
(* QuantityChart (components/QuantityChart.jsx): the row of `data` that    *)
(* the map callback computes for one entry of the quantities prop.         *)
(*                                                                          *)
(* A property of an entry is <<>> where it is undefined and <<n>> where it *)
(* is the number n.                                                         *)
Quantities == {0, 50, 100}
Optional == {<<>>} \cup {<<n>> : n \in Quantities}
Undefined == <<>>

(* The by_type objects: every subset of the three area properties. *)
ByTypes ==
    [hardwood_sqft : Optional, tile_sqft : Optional, carpet_sqft : Optional]

(* The entries the model renders: objects with any of the properties the   *)
(* callback reads, and plain numbers (a property of a number is            *)
(* undefined).                                                              *)
ObjectEntries ==
    [isNumber : {FALSE}, number : {0},
     total_sqft : Optional, total_count : Optional,
     by_type : {<<>>} \cup {<<b>> : b \in ByTypes},
     total : {<<>>, <<50>>}, count : {<<>>, <<100>>},
     quantity : {<<>>, <<0>>}]
NumberEntries ==
    [isNumber : {TRUE}, number : Quantities,
     total_sqft : {<<>>}, total_count : {<<>>}, by_type : {<<>>},
     total : {<<>>}, count : {<<>>}, quantity : {<<>>}]
Entries == ObjectEntries \cup NumberEntries

(* JS `a || b`: undefined and 0 are falsy. *)
Truthy(a) == a # Undefined /\ a[1] # 0
FirstTruthy(a, b) == IF Truthy(a) THEN a ELSE b

(* The branches of the callback (lines 7-29). *)
Row(td) ==
    IF td.total_sqft # Undefined
    THEN [quantity |-> td.total_sqft[1], unit |-> "sqft"]
    ELSE IF td.total_count # Undefined
    THEN [quantity |-> td.total_count[1], unit |-> "count"]
    ELSE IF td.isNumber
    THEN [quantity |-> td.number, unit |-> ""]
    ELSE IF td.by_type # Undefined
    THEN LET byType == td.by_type[1]
         IN  [quantity |->
                  FirstTruthy(byType.hardwood_sqft,
                      FirstTruthy(byType.tile_sqft,
                          FirstTruthy(byType.carpet_sqft,
                              FirstTruthy(td.total_sqft, <<0>>))))[1],
              unit |-> "sqft"]
    ELSE [quantity |->
              FirstTruthy(td.total, FirstTruthy(td.count, FirstTruthy(td.quantity, <<0>>)))[1],
          unit |-> ""]

(* One entry of the prop, not rendered yet. *)
ChartInit ==
    /\ PageIdle
    /\ tradeData \in Entries
    /\ chartRow = NoRow
    /\ gaugeMounted = FALSE
    /\ confidence = 0
    /\ animatedConfidence = 0
    /\ current = 0
    /\ effectRun = 0
    /\ gaugeTimers = {}
    /\ file = "null"
    /\ selectedTrades = <<>>
    /\ availableTrades = {}
    /\ isLoading = FALSE
    /\ formError = "null"
    /\ createPending = FALSE
    /\ formNavigated = FALSE

(* The render: the callback computes the row of the entry. *)
ChartRender ==
    /\ chartRow = NoRow
    /\ chartRow' = Row(tradeData)
    /\ UNCHANGED tradeData

ChartNext ==
    \/ /\ ChartRender
       /\ UNCHANGED <<pageVars, gaugeVars, formVars>>

ChartSpec == ChartInit /\ [][ChartNext]_vars

(* The value of an area property in a sum: 0 where it is undefined. *)
Area(a) == IF a = Undefined THEN 0 ELSE a[1]

(* C24: for a rendered entry without total_sqft and total_count that has a *)
(* by_type breakdown, the charted quantity is the sum of its hardwood,     *)
(* tile and carpet areas.                                                   *)
C24_ByTypeSummed ==
    (/\ chartRow # NoRow
     /\ ~tradeData.isNumber
     /\ tradeData.total_sqft = Undefined
     /\ tradeData.total_count = Undefined
     /\ tradeData.by_type # Undefined)
        => chartRow.quantity
               = Area(tradeData.by_type[1].hardwood_sqft)
                 + Area(tradeData.by_type[1].tile_sqft)
                 + Area(tradeData.by_type[1].carpet_sqft)

----------------------------------------------------------------------------
(* NewProject (pages/NewProject.jsx): the file, the selected trades and    *)
(* the submit handler.  The project name does not take part in the checks  *)
(* of the handler and is left out.                                          *)

(* Inputs: the files the user drops and the ids of the enabled trades. *)
Files == {"plan.pdf", "site.pdf"}
Trades == {"flooring", "doors"}

(* The state after the first render: getSupportedTrades() is in flight. *)
FormInit ==
    /\ PageIdle
    /\ file = "null"
    /\ selectedTrades = <<>>
    /\ availableTrades = {}
    /\ isLoading = FALSE
    /\ formError = "null"
    /\ createPending = FALSE
    /\ formNavigated = FALSE
    /\ gaugeMounted = FALSE
    /\ confidence = 0
    /\ animatedConfidence = 0
    /\ current = 0
    /\ effectRun = 0
    /\ gaugeTimers = {}
    /\ tradeData = NoEntry
    /\ chartRow = NoRow

(* getSupportedTrades() resolves: setAvailableTrades(data.trades || []). *)
TradesLoaded(ts) ==
    /\ ~formNavigated
    /\ availableTrades = {}
    /\ availableTrades' = ts
    /\ UNCHANGED <<file, selectedTrades, isLoading, formError, createPending,
                   formNavigated>>

(* onDrop with one accepted file: setFile, setError(null). *)
onDrop(f) ==
    /\ ~formNavigated
    /\ file' = f
    /\ formError' = "null"
    /\ UNCHANGED <<selectedTrades, availableTrades, isLoading, createPending,
                   formNavigated>>

(* The remove button of the file card (rendered with a file): setFile(null). *)
RemoveFile ==
    /\ ~formNavigated
    /\ file # "null"
    /\ file' = "null"
    /\ UNCHANGED <<selectedTrades, availableTrades, isLoading, formError,
                   createPending, formNavigated>>

(* prev.includes(id) ? prev.filter(t => t !== id) : [...prev, id] *)
Toggled(prev, id) ==
    IF \E i \in DOMAIN prev : prev[i] = id
    THEN SelectSeq(prev, LAMBDA t : t # id)
    ELSE Append(prev, id)

(* toggleTrade from a trade button; the buttons are rendered with a file,  *)
(* one per enabled trade.                                                   *)
toggleTrade(tradeId) ==
    /\ ~formNavigated
    /\ file # "null"
    /\ tradeId \in availableTrades
    /\ selectedTrades' = Toggled(selectedTrades, tradeId)
    /\ UNCHANGED <<file, availableTrades, isLoading, formError, createPending,
                   formNavigated>>

(* A variant of handleSubmit without the check of the selected trades. *)
handleSubmitAnyTrades ==
    /\ ~formNavigated
    /\ IF file = "null"
       THEN /\ formError' = "Please upload a construction plan"
            /\ UNCHANGED <<isLoading, createPending>>
       ELSE /\ isLoading' = TRUE
            /\ formError' = "null"
            /\ createPending' = TRUE
    /\ UNCHANGED <<file, selectedTrades, availableTrades, formNavigated>>

(* handleSubmit up to its await (lines 67-90). *)
handleSubmit ==
    /\ ~formNavigated
    /\ IF file = "null"
       THEN /\ formError' = "Please upload a construction plan"
            /\ UNCHANGED <<isLoading, createPending>>
       ELSE IF selectedTrades = <<>>
       THEN /\ formError' = "Please select at least one trade"
            /\ UNCHANGED <<isLoading, createPending>>
       ELSE /\ isLoading' = TRUE
            /\ formError' = "null"
            /\ createPending' = TRUE
    /\ UNCHANGED <<file, selectedTrades, availableTrades, formNavigated>>

(* The submit button is rendered with a file and a selected trade, and is  *)
(* disabled while isLoading (lines 249-253).                                *)
SubmitRendered == file # "null" /\ selectedTrades # <<>>

(* createProject resolves: navigate to the processing view; the form is    *)
(* left.                                                                    *)
CreateOk ==
    /\ createPending
    /\ createPending' = FALSE
    /\ formNavigated' = TRUE
    /\ UNCHANGED <<file, selectedTrades, availableTrades, isLoading, formError>>

(* createProject rejects: setError(...), setIsLoading(false). *)
CreateFail(err) ==
    /\ createPending
    /\ createPending' = FALSE
    /\ formError' = ErrorText(err, "Failed to create project")
    /\ isLoading' = FALSE
    /\ UNCHANGED <<file, selectedTrades, availableTrades, formNavigated>>

(* handleSubmit is called by the submit button; the last disjunct calls it *)
(* where the button is not rendered, the case its own two checks are for.  *)
FormNext ==
    \/ /\ \E ts \in SUBSET Trades : TradesLoaded(ts)
       /\ UNCHANGED <<pageVars, gaugeVars, chartVars>>
    \/ /\ \E f \in Files : onDrop(f)
       /\ UNCHANGED <<pageVars, gaugeVars, chartVars>>
    \/ /\ RemoveFile
       /\ UNCHANGED <<pageVars, gaugeVars, chartVars>>
    \/ /\ \E t \in Trades : toggleTrade(t)
       /\ UNCHANGED <<pageVars, gaugeVars, chartVars>>
    \/ /\ SubmitRendered /\ ~isLoading /\ handleSubmit
       /\ UNCHANGED <<pageVars, gaugeVars, chartVars>>
    \/ /\ CreateOk
       /\ UNCHANGED <<pageVars, gaugeVars, chartVars>>
    \/ /\ \E err \in Errors : CreateFail(err)
       /\ UNCHANGED <<pageVars, gaugeVars, chartVars>>
    \/ /\ ~SubmitRendered /\ handleSubmit
       /\ UNCHANGED <<pageVars, gaugeVars, chartVars>>

FormSpec == FormInit /\ [][FormNext]_vars

(* C29: a createProject request is issued only in a step that starts with  *)
(* a file and at least one selected trade; a call of handleSubmit without  *)
(* them sets the validation error, issues no request and navigates         *)
(* nowhere; the form navigates only when a request it issued resolves.     *)
C29_CreateOnlyWithFileAndTrade ==
    [][/\ (createPending' /\ ~createPending)
              => (file # "null" /\ selectedTrades # <<>>)
       /\ (handleSubmit /\ file = "null")
              => /\ formError' = "Please upload a construction plan"
                 /\ UNCHANGED <<createPending, isLoading, formNavigated>>
       /\ (handleSubmit /\ file # "null" /\ selectedTrades = <<>>)
              => /\ formError' = "Please select at least one trade"
                 /\ UNCHANGED <<createPending, isLoading, formNavigated>>
       /\ (formNavigated' /\ ~formNavigated) => createPending]_vars

(* A request in flight, issued with the second file dropped and both       *)
(* trades selected.                                                         *)
C29_Witness ==
    /\ createPending
    /\ isLoading
    /\ formError = "null"
    /\ file = "site.pdf"
    /\ Len(selectedTrades) = 2
    /\ ~formNavigated

====
